---- MODULE Spec2Model ----
(***************************************************************************)
(* Survey Data Consolidation Tool (src/streamlit_app.py).                  *)
(*                                                                         *)
(* The script main() is re-run from top to bottom every time one of the    *)
(* two upload widgets changes.  The state is the content of the two        *)
(* widgets plus everything the last run of main() put on the page.         *)
(*                                                                         *)
(* A DataFrame is a record [cols, rows]: cols is the sequence of header    *)
(* labels, rows the sequence of rows, each a sequence of cells as long as  *)
(* cols.  Cells are text; the missing marker (NaN) is the cell NA.         *)
(***************************************************************************)
EXTENDS Naturals, Integers, Sequences, FiniteSets, TLC

VARIABLES bad_responses_file, user_data_file,
          outcome, final_df,
          total_bad_responses, matched_responses, unmatched_responses,
          warning_shown, error_shown, download_offered, download_rows

vars == <<bad_responses_file, user_data_file, outcome, final_df,
          total_bad_responses, matched_responses, unmatched_responses,
          warning_shown, error_shown, download_offered, download_rows>>

(***************************************************************************)
(* Bounds of the model.                                                    *)
(***************************************************************************)
MaxBadRows == 2
MaxUserRows == 2

NA == "NaN"

\* An empty widget: st.file_uploader returns None.
None == [name |-> <<>>, format |-> "none", cols |-> <<>>, rows |-> <<>>]

EmptyFrame == [cols |-> <<>>, rows |-> <<>>]

(***************************************************************************)
(* Helpers on sequences.                                                   *)
(***************************************************************************)
SeqsUpTo(S, n) == UNION {[1..k -> S] : k \in 0..n}

Range(s) == {s[i] : i \in 1..Len(s)}

\* The subsequence of s at the positions of the increasing index sequence idx.
Take(s, idx) == [k \in 1..Len(idx) |-> s[idx[k]]]

\* The increasing sequence of the positions i of 1..n that satisfy keep[i].
RECURSIVE Positions(_, _)
Positions(keep, n) ==
    IF n = 0 THEN <<>>
    ELSE IF keep[n] THEN Append(Positions(keep, n - 1), n)
         ELSE Positions(keep, n - 1)

RECURSIVE Concat(_)
Concat(ss) == IF ss = <<>> THEN <<>> ELSE Head(ss) \o Concat(Tail(ss))

(***************************************************************************)
(* read_file: the extension is the text after the last dot, lower-cased.   *)
(***************************************************************************)
Lower(s) ==
    CASE s = "CSV"  -> "csv"
      [] s = "Csv"  -> "csv"
      [] s = "XLSX" -> "xlsx"
      [] s = "XLS"  -> "xls"
      [] s = "TXT"  -> "txt"
      [] OTHER      -> s

\* uploaded_file.name.split('.')[-1].lower(); name is the list of the parts
\* between the dots.
file_extension(uploaded_file) == Lower(uploaded_file.name[Len(uploaded_file.name)])

\* pd.read_csv: raises on content that is no CSV text, and (EmptyDataError)
\* on text with no columns to parse.
read_csv(f) ==
    IF f.format = "csv" /\ Len(f.cols) > 0
    THEN [ok |-> TRUE, df |-> [cols |-> f.cols, rows |-> f.rows]]
    ELSE [ok |-> FALSE, df |-> EmptyFrame]

\* pd.read_excel: raises on content that is no workbook; an empty sheet
\* loads as a frame without columns.
read_excel(f) ==
    IF f.format = "excel"
    THEN [ok |-> TRUE, df |-> [cols |-> f.cols, rows |-> f.rows]]
    ELSE [ok |-> FALSE, df |-> EmptyFrame]

\* read_file without its last branch: any other extension is read as CSV.
read_file_any_extension(uploaded_file) ==
    IF file_extension(uploaded_file) \in {"xlsx", "xls"} THEN read_excel(uploaded_file)
    ELSE read_csv(uploaded_file)

read_file(uploaded_file) ==
    IF file_extension(uploaded_file) = "csv" THEN read_csv(uploaded_file)
    ELSE IF file_extension(uploaded_file) \in {"xlsx", "xls"} THEN read_excel(uploaded_file)
    ELSE [ok |-> FALSE, df |-> EmptyFrame]

(***************************************************************************)
(* pd.merge(left, right, left_on, right_on, how='left').                   *)
(***************************************************************************)
\* Position of a label in a header (labels of a loaded frame are unique).
IndexOf(label, cols) == CHOOSE i \in 1..Len(cols) : cols[i] = label

\* df[[c1, c2, c3, c4]]: the frame of the named columns, in that order.
select_columns(df, labels) ==
    [cols |-> labels,
     rows |-> [r \in 1..Len(df.rows) |->
                 [k \in 1..Len(labels) |-> df.rows[r][IndexOf(labels[k], df.cols)]]]]

\* dtype of a column as the loader infers it: a column with a text cell, or
\* without rows, is object; a non-empty column of blanks only is float64.
key_dtype(df, k) ==
    IF Len(df.rows) = 0 \/ \E r \in 1..Len(df.rows) : df.rows[r][k] # NA
    THEN "object" ELSE "float64"

\* The join keys are checked for compatible dtypes unless one side is empty.
keys_compatible(left, lk, right, rk) ==
    \/ Len(left.rows) = 0
    \/ Len(right.rows) = 0
    \/ key_dtype(left, lk) = key_dtype(right, rk)

\* A join that keeps the first match only.
first_matching_row(right, rk, v) ==
    LET m == Positions([j \in 1..Len(right.rows) |-> right.rows[j][rk] = v], Len(right.rows))
    IN  IF m = <<>> THEN m ELSE <<m[1]>>

\* Rows of right whose key equals the key v, in right's order.  Missing keys
\* match each other.
matching_rows(right, rk, v) ==
    Positions([j \in 1..Len(right.rows) |-> right.rows[j][rk] = v], Len(right.rows))

merge(left, right, left_on, right_on) ==
    LET lk == IndexOf(left_on, left.cols)
        rk == IndexOf(right_on, right.cols)
        same == left_on = right_on
        \* When both sides name the key alike, the result has one key
        \* column, at the place of the left one.
        ridx == Positions([i \in 1..Len(right.cols) |-> ~(same /\ i = rk)], Len(right.cols))
        lnames == left.cols
        rnames == Take(right.cols, ridx)
        overlap == Range(lnames) \cap Range(rnames)
        lcols == [k \in 1..Len(lnames) |->
                    IF lnames[k] \in overlap THEN lnames[k] \o "_x" ELSE lnames[k]]
        rcols == [k \in 1..Len(rnames) |->
                    IF rnames[k] \in overlap THEN rnames[k] \o "_y" ELSE rnames[k]]
        missing == [k \in 1..Len(ridx) |-> NA]
        joined(i) ==
            LET m == matching_rows(right, rk, left.rows[i][lk])
            IN  IF m = <<>> THEN << left.rows[i] \o missing >>
                ELSE [k \in 1..Len(m) |-> left.rows[i] \o Take(right.rows[m[k]], ridx)]
    IN  IF ~keys_compatible(left, lk, right, rk)
        THEN [ok |-> FALSE, df |-> EmptyFrame]
        ELSE [ok |-> TRUE,
              df |-> [cols |-> lcols \o rcols,
                      rows |-> Concat([i \in 1..Len(left.rows) |-> joined(i)])]]

\* df.drop(columns=[label]): every column so labelled goes.
drop_column(df, label) ==
    LET idx == Positions([i \in 1..Len(df.cols) |-> df.cols[i] # label], Len(df.cols))
    IN  [cols |-> Take(df.cols, idx),
         rows |-> [r \in 1..Len(df.rows) |-> Take(df.rows[r], idx)]]

\* df.rename(columns={a: 'User_REF', b: 'Lucid_Reference', c: 'Country'}):
\* every label is looked up once in the mapping.
rename_columns(df, user_ref_col, lucid_ref_col, country_col) ==
    [cols |-> [k \in 1..Len(df.cols) |->
                 IF df.cols[k] = user_ref_col THEN "User_REF"
                 ELSE IF df.cols[k] = lucid_ref_col THEN "Lucid_Reference"
                 ELSE IF df.cols[k] = country_col THEN "Country"
                 ELSE df.cols[k]],
     rows |-> df.rows]

\* Positions of the columns carrying a label.
columns_named(df, label) == {k \in 1..Len(df.cols) : df.cols[k] = label}

\* A count of the cells of the column, missing or not.
count_all(df, label) == Len(df.rows)

\* final_df['User_REF'].notna().sum(), for a frame with one such column.
notna_sum(df, label) ==
    LET k == CHOOSE c \in columns_named(df, label) : TRUE
    IN  Cardinality({r \in 1..Len(df.rows) : df.rows[r][k] # NA})

(***************************************************************************)
(* main(): one run of the script on the two widgets.  The result is what   *)
(* the run leaves on the page.  outcome is                                 *)
(*   "awaiting_files"        the upload prompt (line 193),                 *)
(*   "bad_empty"             the error of line 74,                         *)
(*   "insufficient_columns"  the error of line 78 (or 91),                 *)
(*   "processing_error"      the error of the except clause (line 185),    *)
(*   "success"               the download button was reached (line 174).   *)
(***************************************************************************)
\* A page without results: the upload prompt (st.info), or one of the
\* st.error messages.
Page(o) ==
    [outcome |-> o, final_df |-> EmptyFrame,
     total_bad_responses |-> 0, matched_responses |-> 0, unmatched_responses |-> 0,
     warning_shown |-> FALSE, error_shown |-> o # "awaiting_files",
     download_offered |-> FALSE, download_rows |-> 0]

\* Line 73.
no_columns(bad_responses_df) == Len(bad_responses_df.cols) = 0

\* The test of line 77 with the limit off by one.
too_few_columns_off_by_one(user_data_df) == Len(user_data_df.cols) <= 8

\* Line 77.
too_few_columns(user_data_df) == Len(user_data_df.cols) < 8

\* Lines 109-182: the join, the counts and the download.
consolidate(bad_responses_df, user_data_df) ==
    LET bad_responses_email_col == bad_responses_df.cols[1]
        user_ref_col  == user_data_df.cols[2]
        email_col     == user_data_df.cols[3]
        lucid_ref_col == user_data_df.cols[6]
        country_col   == user_data_df.cols[8]
        m == merge(bad_responses_df,
                   select_columns(user_data_df,
                                  <<user_ref_col, email_col, lucid_ref_col, country_col>>),
                   bad_responses_email_col, email_col)
        merged_data ==
            IF email_col \in Range(m.df.cols) /\ email_col # bad_responses_email_col
            THEN drop_column(m.df, email_col)
            ELSE m.df
        final == rename_columns(merged_data, user_ref_col, lucid_ref_col, country_col)
        total == Len(bad_responses_df.rows)
        matched == notna_sum(final, "User_REF")
        unmatched == total - matched
    IN  IF ~m.ok THEN Page("processing_error")
        \* final_df['User_REF'] is a KeyError without such a column; with
        \* several it is a frame, whose counts are no number to compare.
        ELSE IF Cardinality(columns_named(final, "User_REF")) # 1
             THEN Page("processing_error")
        ELSE [outcome |-> "success", final_df |-> final,
              total_bad_responses |-> total,
              matched_responses |-> matched,
              unmatched_responses |-> unmatched,
              warning_shown |-> unmatched > 0,
              error_shown |-> FALSE,
              download_offered |-> TRUE,
              download_rows |-> Len(final.rows)]

main(bad_file, user_file) ==
    IF bad_file = None \/ user_file = None THEN Page("awaiting_files")
    ELSE LET b == read_file(bad_file)
             u == read_file(user_file)
         IN  IF ~b.ok \/ ~u.ok THEN Page("processing_error")
             ELSE IF no_columns(b.df) THEN Page("bad_empty")
             ELSE IF too_few_columns(u.df) THEN Page("insufficient_columns")
             ELSE IF Len(u.df.cols) >= 8
                  THEN consolidate(b.df, u.df)
                  ELSE Page("insufficient_columns")

(***************************************************************************)
(* The files the operator may upload.                                      *)
(***************************************************************************)
\* Rows of the bad-responses sheet: the e-mail of column A, then a second
\* and a third cell.
BadPool ==
    { <<"a@x.com", "x", "w">>, <<"b@x.com", "y", "w">>,
      <<NA, "z", "w">>, <<"c@x.com", NA, "w">> }

\* Headers of the bad-responses sheet.  The first three are paired with
\* every choice of rows, the others with the rows of ScenarioKeys.
BadHeadersWide == { <<"Mail">>, <<"Email">>, <<"Mail", "Note">> }

BadHeadersNarrow ==
    { <<"Mail", "Email">>, <<"Mail", "Ref">>, <<"Mail", "Lucid">>,
      <<"Mail", "Country">>, <<"Mail", "User_REF">>, <<"Ref">>,
      <<"Email", "Land">>, <<"Mail", "User_REF", "Ref">> }

ScenarioKeys == << <<"a@x.com", "x", "w">>, <<"b@x.com", "y", "w">> >>

BadFrame(cols, pool_rows) ==
    [cols |-> cols,
     rows |-> [r \in 1..Len(pool_rows) |-> SubSeq(pool_rows[r], 1, Len(cols))]]

BadFrames ==
    {BadFrame(h, rs) : h \in BadHeadersWide, rs \in SeqsUpTo(BadPool, MaxBadRows)}
    \cup {BadFrame(h, rs) : h \in BadHeadersNarrow, rs \in {<<>>, ScenarioKeys}}

\* Rows of the user export, as (User REF, e-mail, Lucid reference, country).
UserPool ==
    { <<"U1", "a@x.com", "L1", "US">>, <<"U2", "a@x.com", "L2", "UK">>,
      <<NA, "b@x.com", "L3", "FR">>, <<"U4", NA, "L4", "DE">> }

\* Header labels of columns B, C, F, H of the user export.
UserHeadersWide == { <<"Ref", "Email", "Lucid", "Land">> }

UserHeadersNarrow ==
    { <<"User_REF", "Email", "Lucid_Reference", "Country">>,
      <<"Country", "Mail", "Lucid", "Land">>,
      <<"Ref", "Mail", "Lucid", "Country">> }

ScenarioUsers == << <<"U1", "a@x.com", "L1", "US">> >>

FanOutUsers == << <<"U1", "a@x.com", "L1", "US">>, <<"U2", "a@x.com", "L2", "UK">> >>

\* The export with n columns: columns A, D, E, G, I carry other data.
UserFrame(n, h, pool_rows) ==
    [cols |-> SubSeq(<<"ID", h[1], h[2], "Age", "Gender", h[3], "Joined", h[4], "Panel">>, 1, n),
     rows |-> [r \in 1..Len(pool_rows) |->
                 SubSeq(<<"1", pool_rows[r][1], pool_rows[r][2], "f", "f",
                          pool_rows[r][3], "f", pool_rows[r][4], "f">>, 1, n)]]

UserFrames ==
    {UserFrame(8, h, rs) : h \in UserHeadersWide, rs \in SeqsUpTo(UserPool, MaxUserRows)}
    \cup {UserFrame(8, h, rs) : h \in UserHeadersNarrow, rs \in {<<>>, ScenarioUsers, FanOutUsers}}
    \cup {UserFrame(n, h, ScenarioUsers) : n \in {1, 3, 7, 9}, h \in UserHeadersWide}

File(name, format, df) == [name |-> name, format |-> format, cols |-> df.cols, rows |-> df.rows]

\* Other names and contents for one sheet: upper-case and spreadsheet
\* extensions, names with no or several dots, an extension the script does
\* not know, content that does not parse, and sheets without columns.
\* The widget is asked for csv, xlsx and xls only (type=[...]); read_file
\* makes its own test of the name, so names of any kind are given to it.
OddFiles(stem, df) ==
    { File(<<stem, "CSV">>, "csv", df), File(<<stem, "v2", "csv">>, "csv", df),
      File(<<stem, "xlsx">>, "excel", df), File(<<stem, "XLS">>, "excel", df),
      File(<<stem, "xlsx">>, "csv", df), File(<<stem, "csv">>, "garbage", EmptyFrame),
      File(<<stem, "txt">>, "csv", df), File(<<stem>>, "csv", df),
      File(<<stem, "csv">>, "csv", EmptyFrame), File(<<stem, "xlsx">>, "excel", EmptyFrame) }

BadFiles ==
    {File(<<"bad", "csv">>, "csv", df) : df \in BadFrames}
    \cup OddFiles("bad", BadFrame(<<"Mail">>, ScenarioKeys))

UserFiles ==
    {File(<<"users", "csv">>, "csv", df) : df \in UserFrames}
    \cup OddFiles("users", UserFrame(8, <<"Ref", "Email", "Lucid", "Land">>, ScenarioUsers))

(***************************************************************************)
(* The state machine: every change of a widget re-runs main().             *)
(***************************************************************************)
Render(page) ==
    /\ outcome' = page.outcome
    /\ final_df' = page.final_df
    /\ total_bad_responses' = page.total_bad_responses
    /\ matched_responses' = page.matched_responses
    /\ unmatched_responses' = page.unmatched_responses
    /\ warning_shown' = page.warning_shown
    /\ error_shown' = page.error_shown
    /\ download_offered' = page.download_offered
    /\ download_rows' = page.download_rows

Init ==
    /\ bad_responses_file = None
    /\ user_data_file = None
    /\ outcome = "awaiting_files"
    /\ final_df = EmptyFrame
    /\ total_bad_responses = 0
    /\ matched_responses = 0
    /\ unmatched_responses = 0
    /\ warning_shown = FALSE
    /\ error_shown = FALSE
    /\ download_offered = FALSE
    /\ download_rows = 0

UploadBad ==
    /\ bad_responses_file = None
    /\ \E f \in BadFiles :
         /\ bad_responses_file' = f
         /\ user_data_file' = user_data_file
         /\ Render(main(f, user_data_file))

UploadUser ==
    /\ user_data_file = None
    /\ \E f \in UserFiles :
         /\ user_data_file' = f
         /\ bad_responses_file' = bad_responses_file
         /\ Render(main(bad_responses_file, f))

RemoveBad ==
    /\ bad_responses_file # None
    /\ bad_responses_file' = None
    /\ user_data_file' = user_data_file
    /\ Render(main(None, user_data_file))

RemoveUser ==
    /\ user_data_file # None
    /\ user_data_file' = None
    /\ bad_responses_file' = bad_responses_file
    /\ Render(main(bad_responses_file, None))

Next == UploadBad \/ UploadUser \/ RemoveBad \/ RemoveUser

Spec == Init /\ [][Next]_vars

(***************************************************************************)
(* Vocabulary of the properties.                                           *)
(***************************************************************************)
BothUploaded == bad_responses_file # None /\ user_data_file # None

\* Both files were read into tables.
Loaded ==
    /\ BothUploaded
    /\ read_file(bad_responses_file).ok
    /\ read_file(user_data_file).ok

BadRows == bad_responses_file.rows

UserRows == user_data_file.rows

BadColumnCount == Len(bad_responses_file.cols)

UserColumnCount == Len(user_data_file.cols)

\* Both tables pass the column-count validation.
Valid == Loaded /\ BadColumnCount >= 1 /\ UserColumnCount >= 8

\* The run reached the results: metrics, preview and download.
Succeeded == outcome = "success"

\* The user rows whose e-mail (column C) equals a key.
Found(key) == {j \in 1..Len(UserRows) : UserRows[j][3] = key}

OutRows == 1..Len(final_df.rows)

\* The cells of an output row below the columns of the bad-responses sheet.
LeftPart(r) == SubSeq(final_df.rows[r], 1, BadColumnCount)

\* The output has a column of that label in which row r holds v.
FieldIs(r, label, v) ==
    \E k \in columns_named(final_df, label) : final_df.rows[r][k] = v

\* The cells that are not missing.
ReferenceCells == {final_df.rows[r][k] : r \in OutRows, k \in 1..Len(final_df.cols)} \ {NA}

AtLeastOne(k) == IF k = 0 THEN 1 ELSE k

RECURSIVE ExpectedRows(_)
ExpectedRows(n) ==
    IF n = 0 THEN 0 ELSE ExpectedRows(n - 1) + AtLeastOne(Cardinality(Found(BadRows[n][1])))

SupportedSpellings == {"csv", "CSV", "Csv", "xlsx", "XLSX", "xls", "XLS"}

Unsupported(f) == f.name[Len(f.name)] \notin SupportedSpellings

Canonical == <<"User_REF", "Lucid_Reference", "Country">>

(***************************************************************************)
(* C1: whenever the counts are reported, matched + unmatched equals the    *)
(* number of rows of the bad-responses table, and matched is the number of *)
(* output rows whose User_REF is not missing.                              *)
(***************************************************************************)
C1_CountsAddUp ==
    Succeeded =>
        /\ total_bad_responses = Len(BadRows)
        /\ matched_responses + unmatched_responses = Len(BadRows)
        /\ matched_responses =
             Cardinality({r \in OutRows : \E v \in ReferenceCells : FieldIs(r, "User_REF", v)})

\* Counts reported for a sheet with a matched and an unmatched row.
C1_Witness ==
    /\ Succeeded
    /\ matched_responses = 1
    /\ unmatched_responses = 1
    /\ Len(final_df.rows) = 2

(***************************************************************************)
(* C2: in the consolidated output every row of the bad-responses table     *)
(* appears at least once, and a row whose key is the e-mail of no user row *)
(* appears with User_REF, Lucid_Reference and Country all missing.         *)
(***************************************************************************)
C2_LeftJoinComplete ==
    Succeeded =>
        \A i \in 1..Len(BadRows) :
            \E r \in OutRows :
                /\ LeftPart(r) = BadRows[i]
                /\ Found(BadRows[i][1]) = {} =>
                     \A c \in 1..3 : FieldIs(r, Canonical[c], NA)

(***************************************************************************)
(* C3: a bad-responses row whose key is the e-mail of k user rows appears  *)
(* in the output max(1, k) times; without duplicate e-mails in the user    *)
(* table the output has as many rows as the bad-responses table.           *)
(***************************************************************************)
C3_RowCount ==
    Succeeded =>
        /\ \A i \in 1..Len(BadRows) :
              Cardinality({r \in OutRows : LeftPart(r) = BadRows[i]})
                = Cardinality({h \in 1..Len(BadRows) : BadRows[h] = BadRows[i]})
                    * AtLeastOne(Cardinality(Found(BadRows[i][1])))
        /\ Len(final_df.rows) = ExpectedRows(Len(BadRows))
        /\ (\A j, h \in 1..Len(UserRows) : UserRows[j][3] = UserRows[h][3] => j = h)
              => Len(final_df.rows) = Len(BadRows)

\* A key found twice next to a key found nowhere: three rows from two.
C3_Witness ==
    /\ Succeeded
    /\ Len(BadRows) = 2
    /\ Cardinality(Found(BadRows[1][1])) = 2
    /\ Found(BadRows[2][1]) = {}
    /\ Len(final_df.rows) = 3

(***************************************************************************)
(* C4 as stated: for loaded tables, the run stops at the column-count      *)
(* validation with an error exactly when the user table has fewer than 8   *)
(* columns.                                                                *)
(***************************************************************************)
ValidationError == outcome \in {"bad_empty", "insufficient_columns"}

C4_OnlyUserColumns ==
    Loaded => (ValidationError <=> UserColumnCount < 8)

(***************************************************************************)
(* C4 amended: for loaded tables, the run stops at the column-count        *)
(* validation with an error, and offers no download, exactly when the user *)
(* table has fewer than 8 columns or the bad-responses table has none.     *)
(***************************************************************************)
C4_ColumnValidation ==
    Loaded =>
        /\ ValidationError <=> (UserColumnCount < 8 \/ BadColumnCount = 0)
        /\ ValidationError => error_shown /\ ~download_offered

\* A bad-responses sheet without columns next to a full user export.
C4_Witness ==
    /\ Loaded
    /\ ValidationError
    /\ BadColumnCount = 0
    /\ UserColumnCount >= 8

(***************************************************************************)
(* C5: an output row of a bad-responses row with a match carries in        *)
(* User_REF, Lucid_Reference and Country the columns B, F and H of one     *)
(* user row with that e-mail; keys a@x.com, b@x.com against the single     *)
(* user (U1, a@x.com, L1, US) give two rows, the first with U1, L1, US,    *)
(* the second with the three missing, matched 1 and unmatched 1.           *)
(***************************************************************************)
C5_CarriedFields ==
    Succeeded =>
        /\ \A r \in OutRows :
              Found(LeftPart(r)[1]) # {} =>
                 \E j \in Found(LeftPart(r)[1]) :
                     /\ FieldIs(r, "User_REF", UserRows[j][2])
                     /\ FieldIs(r, "Lucid_Reference", UserRows[j][6])
                     /\ FieldIs(r, "Country", UserRows[j][8])
        /\ ( /\ [i \in 1..Len(BadRows) |-> BadRows[i][1]] = <<"a@x.com", "b@x.com">>
             /\ [j \in 1..Len(UserRows) |-> <<UserRows[j][2], UserRows[j][3],
                                             UserRows[j][6], UserRows[j][8]>>]
                  = ScenarioUsers )
           => /\ Len(final_df.rows) = 2
              /\ FieldIs(1, "User_REF", "U1")
              /\ FieldIs(1, "Lucid_Reference", "L1")
              /\ FieldIs(1, "Country", "US")
              /\ \A c \in 1..3 : FieldIs(2, Canonical[c], NA)
              /\ matched_responses = 1
              /\ unmatched_responses = 1

(***************************************************************************)
(* C6: once both tables pass the column-count validation (and their keys   *)
(* are of one type), the consolidation ends without error and its output   *)
(* has the columns User_REF, Lucid_Reference and Country, whatever the     *)
(* header labels.                                                          *)
(***************************************************************************)
C6_AnyLabels ==
    (Valid /\ keys_compatible(bad_responses_file, 1, user_data_file, 3)) =>
        /\ Succeeded
        /\ ~error_shown
        /\ \A c \in 1..3 : columns_named(final_df, Canonical[c]) # {}

(***************************************************************************)
(* C7: with both files uploaded the run ends either with the download      *)
(* offered and no error, or with an error shown and no download; a file    *)
(* extension other than csv, xlsx, xls in any case, content that does not  *)
(* parse, too few columns and a failing join all end with the error.       *)
(***************************************************************************)
C7_OneOutcome ==
    BothUploaded =>
        /\ \/ Succeeded /\ download_offered /\ ~error_shown
           \/ ~Succeeded /\ error_shown /\ ~download_offered
        /\ (Unsupported(bad_responses_file) \/ Unsupported(user_data_file)) => error_shown
        /\ ("garbage" \in {bad_responses_file.format, user_data_file.format}) => error_shown
        /\ (Loaded /\ UserColumnCount < 8) => error_shown
        /\ (Valid /\ ~keys_compatible(bad_responses_file, 1, user_data_file, 3)) => error_shown
        /\ (Valid /\ columns_named(final_df, "User_REF") = {}) => error_shown

\* A sheet with an extension the script does not know ends with the error.
C7_Witness ==
    /\ BothUploaded
    /\ Unsupported(bad_responses_file)
    /\ bad_responses_file.format = "csv"
    /\ ~Unsupported(user_data_file)
    /\ read_file(user_data_file).ok
    /\ error_shown
    /\ ~download_offered

(***************************************************************************)
(* C8: the columns of the output are the columns of the bad-responses      *)
(* table in their order, then User_REF, Lucid_Reference and Country; the   *)
(* e-mail column of the user table is never an output column of its own.   *)
(***************************************************************************)
C8_ColumnList ==
    Succeeded => final_df.cols = bad_responses_file.cols \o Canonical

(***************************************************************************)
(* C9: Unmatched is the number of bad-responses rows whose e-mail is in no *)
(* user row, Successfully Matched the number of those whose e-mail is in   *)
(* one, and the warning is shown exactly when a row of the first kind      *)
(* exists.                                                                 *)
(***************************************************************************)
C9_CountsOfFound ==
    Succeeded =>
        /\ unmatched_responses =
             Cardinality({i \in 1..Len(BadRows) : Found(BadRows[i][1]) = {}})
        /\ matched_responses =
             Cardinality({i \in 1..Len(BadRows) : Found(BadRows[i][1]) # {}})
        /\ warning_shown <=> \E i \in 1..Len(BadRows) : Found(BadRows[i][1]) = {}

(***************************************************************************)
(* C10: the counts are counts: 0 <= matched <= total and unmatched >= 0,   *)
(* also with duplicate e-mails in the user table.                          *)
(***************************************************************************)
C10_GenuineCounts ==
    Succeeded =>
        /\ 0 <= matched_responses
        /\ matched_responses <= total_bad_responses
        /\ unmatched_responses >= 0

====
